---- MODULE Spec2Model ----
(***************************************************************************)
(* Heartflow plugin (src/main.py): the per-conversation energy store, the  *)
(* judgment requester with its weighted score and double gate, and the     *)
(* group-message handler with its suspension points.                       *)
(*                                                                         *)
(* Numbers are fixed point.  Energy and the configured rates are in        *)
(* hundredths (1.0 is 100, 0.1 is 10, 0.02 is 2); the weights are in       *)
(* hundredths and a dimension score is an integer 0..10, so that           *)
(* overall_score = (sum of score*weight)/10 is, in thousandths, exactly    *)
(* the sum of score*weight; the threshold is in thousandths (0.6 is 600).  *)
(* Dates are day numbers, the empty last_reset_date "" is day 0; time is a *)
(* clock that starts at 1 (time.time() is never 0).                        *)
(***************************************************************************)
EXTENDS Integers, Sequences, FiniteSets

\* ------------------------------------------------------------- bounds
MaxMessages == 2
MaxTime == 2

\* ---------------------------------------------------------- constants
FullEnergy == 100
MinEnergy == 10
DailyRecovery == 20
NeverReplied == 999
SecondsPerMinute == 60
\* A pause of 999 minutes, in seconds.
LongPause == 59940

Keys == {"g1", "g2"}
\* The conversation the heartflow commands are issued in.
CommandKeys == {"g1"}
Handlers == {"h1", "h2"}
ProviderName == "judge"

Max(a, b) == IF a >= b THEN a ELSE b
Min(a, b) == IF a <= b THEN a ELSE b

\* ------------------------------------------------------ configuration
\* __init__: the values read from the config once, at construction.  The
\* rates are the defaults 0.1/0.02, a fast pair (one reply takes the energy
\* to its floor) and a negative pair (the config is not validated); the
\* threshold is the default 0.6.
DefaultConfig ==
  [ enable_heartflow |-> TRUE, judge_provider_name |-> ProviderName,
    reply_threshold |-> 600, energy_decay_rate |-> 10,
    energy_recovery_rate |-> 2, whitelist_enabled |-> TRUE,
    chat_whitelist |-> {"g1"} ]
Configs ==
  { DefaultConfig,
    [ DefaultConfig EXCEPT !.energy_decay_rate = 90, !.energy_recovery_rate = 30 ],
    [ DefaultConfig EXCEPT !.energy_decay_rate = -10, !.energy_recovery_rate = -5 ],
    [ DefaultConfig EXCEPT !.judge_provider_name = "", !.whitelist_enabled = FALSE ],
    [ DefaultConfig EXCEPT !.enable_heartflow = FALSE, !.whitelist_enabled = FALSE ] }

\* self.weights, in hundredths.
Dims == {"relevance", "willingness", "social", "timing", "continuity"}
weights ==
  [ relevance |-> 25, willingness |-> 20, social |-> 20,
    timing |-> 15, continuity |-> 20 ]

\* ------------------------------------------------------- ChatState
\* ChatState(): the dataclass defaults.
ChatState ==
  [ energy |-> FullEnergy, last_reply_time |-> 0, last_reset_date |-> 0,
    total_messages |-> 0, total_replies |-> 0 ]

VARIABLES
  config,       \* the plugin's configuration
  chat_states,  \* self.chat_states: a function whose DOMAIN is the dict's keys
  now,          \* time.time()
  today,        \* datetime.date.today()
  handlers,     \* per handler slot: the on_group_message invocation in it
  last,         \* the invocation of on_group_message that ended last
  started,      \* number of on_group_message invocations so far
  evaluated,    \* per key: judged messages since the entry was last removed
  verdicts,     \* per key: should-reply verdicts since the entry was last removed
  bumps,        \* per key: daily recoveries applied to the entry on the current date
  concurrent    \* keys that had two invocations in flight at once since the entry was last removed

vars == << config, chat_states, now, today, handlers, last, started, evaluated,
           verdicts, bumps, concurrent >>

\* self.chat_states[chat_id] = state, on the store cs.
Put(cs, chat_id, state) ==
  [ k \in DOMAIN cs \cup {chat_id} |-> IF k = chat_id THEN state ELSE cs[k] ]

\* Mutant: the date of the recovery is not stored.
GetChatState_NoDate(cs, chat_id, date) ==
  LET cs1 == IF chat_id \in DOMAIN cs THEN cs ELSE Put(cs, chat_id, ChatState)
      state == cs1[chat_id]
  IN  IF state.last_reset_date # date
        THEN Put(cs1, chat_id,
                 [ state EXCEPT !.energy = Min(FullEnergy, state.energy + DailyRecovery) ])
        ELSE cs1

\* Mutant: an access counts a message.
GetChatState_Counting(cs, chat_id, date) ==
  LET cs1 == IF chat_id \in DOMAIN cs THEN cs ELSE Put(cs, chat_id, ChatState)
      state == cs1[chat_id]
  IN  Put(cs1, chat_id,
          [ state EXCEPT !.last_reset_date = date,
                         !.total_messages = state.total_messages + 1,
                         !.energy = IF state.last_reset_date # date
                                      THEN Min(FullEnergy, state.energy + DailyRecovery)
                                      ELSE state.energy ])

\* Mutant: on a new date the entry is replaced by a new ChatState.
GetChatState_Renew(cs, chat_id, date) ==
  LET cs1 == IF chat_id \in DOMAIN cs THEN cs ELSE Put(cs, chat_id, ChatState)
      state == cs1[chat_id]
  IN  IF state.last_reset_date # date
        THEN Put(cs1, chat_id, [ ChatState EXCEPT !.last_reset_date = date ])
        ELSE cs1

\* _get_chat_state on the store cs: the store after the access (the state
\* the code returns is the entry at chat_id).
GetChatState(cs, chat_id, date) ==
  LET cs1 == IF chat_id \in DOMAIN cs THEN cs ELSE Put(cs, chat_id, ChatState)
      state == cs1[chat_id]
  IN  IF state.last_reset_date # date
        THEN Put(cs1, chat_id,
                 [ state EXCEPT !.last_reset_date = date,
                                !.energy = Min(FullEnergy, state.energy + DailyRecovery) ])
        ELSE cs1

\* Whether an access of chat_id applies the daily recovery.
RecoveryDue(cs, chat_id, date) ==
  IF chat_id \in DOMAIN cs THEN cs[chat_id].last_reset_date # date
  ELSE ChatState.last_reset_date # date

\* Mutant: total_messages is not counted on a reply.
UpdateActiveState_NoCount(cs, chat_id, date, time, decay) ==
  LET cs1 == GetChatState(cs, chat_id, date)
      s == cs1[chat_id]
  IN  Put(cs1, chat_id,
          [ s EXCEPT !.last_reply_time = time,
                     !.total_replies = s.total_replies + 1,
                     !.energy = Max(MinEnergy, s.energy - decay) ])

\* Mutant: the decay without its floor.
UpdateActiveState_NoFloor(cs, chat_id, date, time, decay) ==
  LET cs1 == GetChatState(cs, chat_id, date)
      s == cs1[chat_id]
  IN  Put(cs1, chat_id,
          [ s EXCEPT !.last_reply_time = time,
                     !.total_replies = s.total_replies + 1,
                     !.total_messages = s.total_messages + 1,
                     !.energy = s.energy - decay ])

\* Mutant: the time of the reply is not recorded.
UpdateActiveState_NoTime(cs, chat_id, date, time, decay) ==
  LET cs1 == GetChatState(cs, chat_id, date)
      s == cs1[chat_id]
  IN  Put(cs1, chat_id,
          [ s EXCEPT !.total_replies = s.total_replies + 1,
                     !.total_messages = s.total_messages + 1,
                     !.energy = Max(MinEnergy, s.energy - decay) ])

\* _update_active_state
UpdateActiveState(cs, chat_id, date, time, decay) ==
  LET cs1 == GetChatState(cs, chat_id, date)
      s == cs1[chat_id]
  IN  Put(cs1, chat_id,
          [ s EXCEPT !.last_reply_time = time,
                     !.total_replies = s.total_replies + 1,
                     !.total_messages = s.total_messages + 1,
                     !.energy = Max(MinEnergy, s.energy - decay) ])

\* Mutant: the message count starts again on a message that is not replied to.
UpdatePassiveState_Clearing(cs, chat_id, date, recovery) ==
  LET cs1 == GetChatState(cs, chat_id, date)
      s == cs1[chat_id]
  IN  Put(cs1, chat_id,
          [ s EXCEPT !.total_messages = 0,
                     !.energy = Min(FullEnergy, s.energy + recovery) ])

\* _update_passive_state
UpdatePassiveState(cs, chat_id, date, recovery) ==
  LET cs1 == GetChatState(cs, chat_id, date)
      s == cs1[chat_id]
  IN  Put(cs1, chat_id,
          [ s EXCEPT !.total_messages = s.total_messages + 1,
                     !.energy = Min(FullEnergy, s.energy + recovery) ])

\* _get_minutes_since_last_reply, on the store after its own access.
MinutesSinceLastReply(cs, chat_id, date, time) ==
  LET s == GetChatState(cs, chat_id, date)[chat_id]
  IN  IF s.last_reply_time = 0 THEN NeverReplied
      ELSE (time - s.last_reply_time) \div SecondsPerMinute

\* ------------------------------------------------- inbound messages
\* message_str as a sequence of characters; str.strip() removes the blanks
\* at both ends.
RECURSIVE LStrip(_)
LStrip(s) == IF s # << >> /\ Head(s) = " " THEN LStrip(Tail(s)) ELSE s
RECURSIVE RStrip(_)
RStrip(s) ==
  IF s # << >> /\ s[Len(s)] = " " THEN RStrip(SubSeq(s, 1, Len(s) - 1)) ELSE s
Strip(s) == RStrip(LStrip(s))

BotId == "bot"
Eligible(k) ==
  [ unified_msg_origin |-> k, is_at_or_wake_command |-> FALSE,
    sender_id |-> "user", message_str |-> << " ", "a", " " >> ]
\* An eligible event per key, and the variants of one with one cause of
\* skipping each.
Events ==
  { Eligible(k) : k \in Keys }
  \cup { [ Eligible("g1") EXCEPT !.is_at_or_wake_command = TRUE ],
         [ Eligible("g1") EXCEPT !.sender_id = BotId ],
         [ Eligible("g1") EXCEPT !.message_str = << >> ],
         [ Eligible("g1") EXCEPT !.message_str = << " ", " " >> ] }

\* Mutant: the whitelist is not consulted.
ShouldProcessMessage_NoWhitelist(cfg, event) ==
  IF ~cfg.enable_heartflow THEN FALSE
  ELSE IF event.is_at_or_wake_command THEN FALSE
  ELSE IF event.sender_id = BotId THEN FALSE
  ELSE IF event.message_str = << >> \/ Strip(event.message_str) = << >> THEN FALSE
  ELSE TRUE

\* Mutant: the bot's own messages are not filtered.
ShouldProcessMessage_OwnMessages(cfg, event) ==
  IF ~cfg.enable_heartflow THEN FALSE
  ELSE IF event.is_at_or_wake_command THEN FALSE
  ELSE IF cfg.whitelist_enabled /\ event.unified_msg_origin \notin cfg.chat_whitelist
    THEN FALSE
  ELSE IF event.message_str = << >> \/ Strip(event.message_str) = << >> THEN FALSE
  ELSE TRUE

\* _should_process_message
ShouldProcessMessage(cfg, event) ==
  IF ~cfg.enable_heartflow THEN FALSE
  ELSE IF event.is_at_or_wake_command THEN FALSE
  ELSE IF cfg.whitelist_enabled /\ event.unified_msg_origin \notin cfg.chat_whitelist
    THEN FALSE
  ELSE IF event.sender_id = BotId THEN FALSE
  ELSE IF event.message_str = << >> \/ Strip(event.message_str) = << >> THEN FALSE
  ELSE TRUE

\* ------------------------------------------------ provider responses
\* What text_chat gives: it raises, or it returns a response whose
\* completion_text is missing (None), or a text: an optional code fence
\* around a payload.  A payload is not JSON ("garbage"), JSON that is no
\* object ("array"), or an object.  Of an object the model keeps the five
\* scores that are present (scores is a function on the present keys),
\* whether every present score is a number, the should_reply field and
\* the kind of the reasoning field.
Scores(r, w, s, t, c) ==
  [ relevance |-> r, willingness |-> w, social |-> s, timing |-> t, continuity |-> c ]
Object(scores, numeric, should_reply, reasoning) ==
  [ shape |-> "object", scores |-> scores, numeric |-> numeric,
    should_reply |-> should_reply, reasoning |-> reasoning ]
High == Scores(8, 7, 7, 6, 5)
Even == Scores(6, 6, 6, 6, 6)
Partial == [ relevance |-> 10, willingness |-> 10 ]
Objects ==
  { Object(High, TRUE, "true", "string"),
    Object(High, TRUE, "false", "string"),
    Object(High, TRUE, "absent", "string"),
    Object(High, TRUE, "true", "null"),
    Object(Even, TRUE, "true", "absent"),
    Object(Partial, TRUE, "true", "string"),
    Object(Partial, TRUE, "false", "null"),
    Object(High, FALSE, "true", "string") }
Payloads == Objects \cup { [ shape |-> "garbage" ], [ shape |-> "array" ] }
Fences == { "none", "json", "plain", "other" }
Responses ==
  { [ kind |-> "raise" ], [ kind |-> "no_text" ] }
  \cup { [ kind |-> "text", fence |-> "none", payload |-> p ] : p \in Payloads }
  \cup { [ kind |-> "text", fence |-> f,
           payload |-> Object(High, TRUE, "true", "string") ] : f \in Fences }

\* JudgeResult: the fields the handler reads.  reasoning is "string" or
\* "null" (a value that cannot be sliced).
JudgeResult(should_reply, reasoning, overall_score) ==
  [ should_reply |-> should_reply, reasoning |-> reasoning,
    overall_score |-> overall_score ]
DefaultResult == JudgeResult(FALSE, "string", 0)

\* An outcome of a block of code: it raised exc ("none": it did not) or
\* returned result.  flag is the should_reply field of the parsed object
\* ("none": nothing was parsed); cause is why a default result was
\* returned ("none": the result was parsed).
Returned(result, flag) ==
  [ exc |-> "none", result |-> result, flag |-> flag, cause |-> "none" ]
Raised(exc) ==
  [ exc |-> exc, result |-> DefaultResult, flag |-> "none", cause |-> exc ]
\* Mutant: the default result carries no reasoning.
Defaulted_NoReason(cause) ==
  [ exc |-> "none", result |-> JudgeResult(FALSE, "null", 0), flag |-> "none",
    cause |-> cause ]

\* return JudgeResult(should_reply=False, reasoning=...)
Defaulted(cause) ==
  [ exc |-> "none", result |-> DefaultResult, flag |-> "none", cause |-> cause ]

\* dict.get(key, 0) on the scores.
GetScore(scores, d) == IF d \in DOMAIN scores THEN scores[d] ELSE 0

\* Mutant: the five scores weigh the same.
OverallScore_Unweighted(scores) ==
  ( GetScore(scores, "relevance") + GetScore(scores, "willingness")
    + GetScore(scores, "social") + GetScore(scores, "timing")
    + GetScore(scores, "continuity") ) * 20

\* The weighted sum of lines 262-268, in thousandths.
OverallScore(scores) ==
  GetScore(scores, "relevance") * weights["relevance"]
  + GetScore(scores, "willingness") * weights["willingness"]
  + GetScore(scores, "social") * weights["social"]
  + GetScore(scores, "timing") * weights["timing"]
  + GetScore(scores, "continuity") * weights["continuity"]

\* Mutant: the gate with "or" for "and".
FinalShouldReply_Or(flag, overall_score, threshold) ==
  (flag = "true") \/ overall_score >= threshold

\* should_reply=judge_data.get("should_reply", False) and overall_score >= threshold
FinalShouldReply(flag, overall_score, threshold) ==
  (flag = "true") /\ overall_score >= threshold

\* Lines 255-258: the text json.loads is given.  The fences ```json and ```
\* are removed; another language tag stays in front of the payload.
StripFence(text) ==
  IF text.fence \in {"none", "json", "plain"} THEN text.payload
  ELSE [ shape |-> "garbage" ]

\* Lines 255-281, the body of the inner try.
ParseJudgment(text, threshold) ==
  LET judge_data == StripFence(text)
  IN  IF judge_data.shape = "garbage" THEN Raised("JSONDecodeError")
      ELSE IF judge_data.shape = "array" THEN Raised("AttributeError")
      ELSE IF ~judge_data.numeric THEN Raised("TypeError")
      ELSE LET overall_score == OverallScore(judge_data.scores)
           IN  Returned(
                 JudgeResult(
                   FinalShouldReply(judge_data.should_reply, overall_score, threshold),
                   IF judge_data.reasoning = "null" THEN "null" ELSE "string",
                   overall_score),
                 judge_data.should_reply)

\* except json.JSONDecodeError (line 282)
ExceptJSONDecodeError(outcome) ==
  IF outcome.exc = "JSONDecodeError" THEN Defaulted(outcome.exc) ELSE outcome

\* Mutant: only the provider's own error is caught.
ExceptException_Narrow(outcome) ==
  IF outcome.exc = "ProviderError" THEN Defaulted(outcome.exc) ELSE outcome

\* except Exception (lines 166, 286)
ExceptException(outcome) ==
  IF outcome.exc # "none" THEN Defaulted(outcome.exc) ELSE outcome

\* Lines 235-288: the outer try around the provider call and the parse.
JudgeResponse(response, threshold) ==
  ExceptException(
    IF response.kind = "raise" THEN Raised("ProviderError")
    ELSE IF response.kind = "no_text" THEN Raised("AttributeError")
    ELSE ExceptJSONDecodeError(ParseJudgment(response, threshold)))

\* Lines 157-168: the provider lookup.  lookup is what get_provider_by_id
\* does: "found", "none" (a falsy provider) or "raise".  Proceed: the
\* function goes on to build the request; otherwise it returns a result.
Lookups == { "found", "none", "raise" }
Proceed == [ exc |-> "none", proceed |-> TRUE ]
JudgeProvider(cfg, lookup) ==
  IF cfg.judge_provider_name = "" THEN Defaulted("unconfigured")
  ELSE IF lookup = "found" THEN Proceed
  ELSE ExceptException(
         IF lookup = "raise" THEN Raised("LookupError")
         ELSE Defaulted("not_found"))

\* ------------------------------------------------- on_group_message
\* A handler slot holds one suspended invocation of on_group_message, or is
\* idle; an invocation that ends is kept in last.  Of an invocation:
\*   pc          where it is: "idle" (none); suspended at "persona" (line 171),
\*               "history" (lines 177-178) or "waiting" (the request,
\*               line 246); ended "skipped" (line 294), "replied" (line
\*               309), "not_replied" (line 312), "failed" (an exception
\*               logged at line 315) or "crashed" (an exception left it)
\*   event       the message; is_at_or_wake_command is the flag it sets
\*   wake0       the flag the message came with
\*   requests    calls of text_chat made for it
\*   mutations   steps of it that wrote to the ChatState of its key
\*   counted     steps of it that changed a counter of that ChatState
\*   transition  the _update_*_state applied for it: "none", "active", "passive"
\*   judged      judge_with_tiny_model returned a JudgeResult
\*   result      that JudgeResult
\*   flag        the should_reply field of the parsed object, "none" if
\*               nothing was parsed
\*   cause       why the judgment failed, "none" if it did not
Terminal == { "skipped", "replied", "not_replied", "failed", "crashed" }
InFlight == { "persona", "history", "waiting" }

NewHandler(event) ==
  [ pc |-> "idle", event |-> event, wake0 |-> event.is_at_or_wake_command,
    requests |-> 0, mutations |-> 0, counted |-> 0, transition |-> "none",
    judged |-> FALSE, result |-> DefaultResult, flag |-> "none", cause |-> "none" ]

Idle == NewHandler(Eligible("g1"))

KeyOf(hr) == hr.event.unified_msg_origin

\* Whether the entry of k in cs2 is new or differs from the one in cs.
Written(cs, cs2, k) ==
  /\ k \in DOMAIN cs2
  /\ (k \notin DOMAIN cs \/ cs2[k] # cs[k])

\* Whether a counter of the entry of k in cs2 differs from the one in cs (a
\* missing entry counts as a new ChatState).
Counters(s) == << s.total_messages, s.total_replies >>
Counted(cs, cs2, k) ==
  /\ k \in DOMAIN cs2
  /\ Counters(cs2[k]) # Counters(IF k \in DOMAIN cs THEN cs[k] ELSE ChatState)

\* Mutant: the flag is not set.
MarkWake_Forgotten(event) == event

\* Line 307
MarkWake(event) == [ event EXCEPT !.is_at_or_wake_command = TRUE ]

\* n accesses in a row, and how many of them applied the daily recovery.
RECURSIVE AccessN(_, _, _, _)
AccessN(cs, k, date, n) ==
  IF n = 0 THEN cs ELSE AccessN(GetChatState(cs, k, date), k, date, n - 1)
RECURSIVE RecoveriesN(_, _, _, _)
RecoveriesN(cs, k, date, n) ==
  IF n = 0 THEN 0
  ELSE (IF RecoveryDue(cs, k, date) THEN 1 ELSE 0)
       + RecoveriesN(GetChatState(cs, k, date), k, date, n - 1)

\* Mutant: a conversation at its minimum energy does not reply.
VerdictBody_Tired(hr, outcome, cs, cfg, date, time) ==
  IF outcome.exc # "none"
    THEN [ exc |-> outcome.exc, handler |-> [ hr EXCEPT !.cause = outcome.exc ],
           store |-> cs ]
  ELSE LET tired == /\ KeyOf(hr) \in DOMAIN cs
                    /\ cs[KeyOf(hr)].energy <= MinEnergy
           result == [ outcome.result EXCEPT !.should_reply = @ /\ ~tired ]
           judged == [ hr EXCEPT !.judged = TRUE, !.result = result,
                                 !.flag = outcome.flag, !.cause = outcome.cause ]
       IN  IF result.should_reply
             THEN [ exc |-> "none",
                    handler |-> [ judged EXCEPT !.event = MarkWake(judged.event),
                                                !.transition = "active",
                                                !.pc = "replied" ],
                    store |-> UpdateActiveState(cs, KeyOf(hr), date, time,
                                                cfg.energy_decay_rate) ]
           ELSE IF result.reasoning = "null"
             THEN [ exc |-> "TypeError", handler |-> judged, store |-> cs ]
           ELSE [ exc |-> "none",
                  handler |-> [ judged EXCEPT !.transition = "passive",
                                              !.pc = "not_replied" ],
                  store |-> UpdatePassiveState(cs, KeyOf(hr), date,
                                               cfg.energy_recovery_rate) ]

\* Lines 298-312, the body of the try, once judge_with_tiny_model has ended
\* with outcome: the handler record and the store it leaves, and the
\* exception it raised.
VerdictBody(hr, outcome, cs, cfg, date, time) ==
  IF outcome.exc # "none"
    THEN [ exc |-> outcome.exc, handler |-> [ hr EXCEPT !.cause = outcome.exc ],
           store |-> cs ]
  ELSE LET judged == [ hr EXCEPT !.judged = TRUE, !.result = outcome.result,
                                 !.flag = outcome.flag, !.cause = outcome.cause ]
       IN  IF outcome.result.should_reply
             THEN [ exc |-> "none",
                    handler |-> [ judged EXCEPT !.event = MarkWake(judged.event),
                                                !.transition = "active",
                                                !.pc = "replied" ],
                    store |-> UpdateActiveState(cs, KeyOf(hr), date, time,
                                                cfg.energy_decay_rate) ]
           ELSE IF outcome.result.reasoning = "null"
             \* line 311: reasoning[:30] raises TypeError before line 312
             THEN [ exc |-> "TypeError", handler |-> judged, store |-> cs ]
           ELSE [ exc |-> "none",
                  handler |-> [ judged EXCEPT !.transition = "passive",
                                              !.pc = "not_replied" ],
                  store |-> UpdatePassiveState(cs, KeyOf(hr), date,
                                               cfg.energy_recovery_rate) ]

\* Lines 314-317: except Exception, which logs and returns.
HandlerExcept(b) ==
  IF b.exc # "none"
    THEN [ b EXCEPT !.exc = "none", !.handler.pc = "failed" ]
    ELSE b

\* Lines 296-317.
ApplyVerdict(hr, outcome, cs, cfg, date, time) ==
  LET b == HandlerExcept(VerdictBody(hr, outcome, cs, cfg, date, time))
  IN  IF b.exc # "none" THEN [ b EXCEPT !.handler.pc = "crashed" ] ELSE b

\* The end of an invocation in slot h: the verdict is applied (b is what
\* lines 296-317 leave) and the history variables follow.
Finish(h, hr, outcome) ==
  \E b \in { ApplyVerdict(hr, outcome, chat_states, config, today, now) } :
  LET k == KeyOf(hr)
      wrote == Written(chat_states, b.store, k)
  IN  /\ chat_states' = b.store
      /\ handlers' = [ handlers EXCEPT ![h] = Idle ]
      /\ last' = [ b.handler EXCEPT
                     !.mutations = @ + (IF wrote THEN 1 ELSE 0),
                     !.counted = @ + (IF Counted(chat_states, b.store, k) THEN 1 ELSE 0) ]
      /\ evaluated' = [ evaluated EXCEPT ![k] = @ + (IF b.handler.judged THEN 1 ELSE 0) ]
      /\ verdicts' = [ verdicts EXCEPT ![k] =
                         @ + (IF b.handler.judged /\ b.handler.result.should_reply
                                THEN 1 ELSE 0) ]
      /\ bumps' = [ bumps EXCEPT ![k] =
                      @ + (IF b.handler.transition # "none"
                             /\ RecoveryDue(chat_states, k, today) THEN 1 ELSE 0) ]
      /\ UNCHANGED concurrent

\* A group message arrives: lines 293-294, then judge_with_tiny_model up to
\* its first await (line 171).  A judgment that ends before that (lines
\* 157-168) never suspends, and the handler runs to its end in this step.
\* The slots are interchangeable: the message takes the first idle one.
\* The lookup is made only at line 163; where it is not made its outcome
\* is not drawn.
Receive(h, event, lookup) ==
  /\ started < MaxMessages
  /\ handlers[h].pc = "idle"
  /\ h = "h1" \/ handlers["h1"].pc # "idle"
  /\ \/ lookup = "found"
     \/ ShouldProcessMessage(config, event) /\ config.judge_provider_name # ""
  /\ started' = started + 1
  /\ UNCHANGED << config, now, today >>
  /\ LET hr == NewHandler(event)
     IN  IF ~ShouldProcessMessage(config, event)
           THEN /\ last' = [ hr EXCEPT !.pc = "skipped" ]
                /\ UNCHANGED << chat_states, handlers, evaluated, verdicts, bumps,
                                concurrent >>
         ELSE LET o == JudgeProvider(config, lookup)
              IN  IF o = Proceed
                    THEN /\ handlers' = [ handlers EXCEPT ![h] = [ hr EXCEPT !.pc = "persona" ] ]
                         /\ concurrent' =
                              IF \E g \in Handlers : /\ handlers[g].pc \in InFlight
                                                     /\ KeyOf(handlers[g]) = KeyOf(hr)
                                THEN concurrent \cup { KeyOf(hr) } ELSE concurrent
                         /\ UNCHANGED << chat_states, last, evaluated, verdicts, bumps >>
                    ELSE Finish(h, hr, o)

\* An access step of slot h: n accesses of its key in a row.
AccessStep(h, n, pc2) ==
  \E cs2 \in { AccessN(chat_states, KeyOf(handlers[h]), today, n) } :
  LET hr == handlers[h]
      k == KeyOf(hr)
  IN  /\ chat_states' = cs2
      /\ bumps' = [ bumps EXCEPT ![k] = @ + RecoveriesN(chat_states, k, today, n) ]
      /\ handlers' = [ handlers EXCEPT ![h] =
           [ hr EXCEPT !.pc = pc2,
                       !.mutations = @ + (IF Written(chat_states, cs2, k) THEN 1 ELSE 0),
                       !.counted = @ + (IF Counted(chat_states, cs2, k) THEN 1 ELSE 0),
                       !.requests = @ + (IF pc2 = "waiting" THEN 1 ELSE 0) ] ]
      /\ UNCHANGED << config, now, today, last, started, evaluated, verdicts,
                      concurrent >>

\* Lines 175-176, after the await of line 171: _get_chat_state, then
\* _build_chat_context, which accesses the state again and does not suspend.
BuildContext(h) ==
  /\ handlers[h].pc = "persona"
  /\ AccessStep(h, 2, "history")

\* Lines 181-249, after the awaits of lines 177-178: the prompt (line 187
\* accesses the state through _get_minutes_since_last_reply) and the call
\* of text_chat.
SendRequest(h) ==
  /\ handlers[h].pc = "history"
  /\ AccessStep(h, 1, "waiting")

\* Lines 246-312: text_chat ends with response; the parse, the verdict and
\* the transition follow without suspending.
Respond(h, response) ==
  /\ handlers[h].pc = "waiting"
  /\ Finish(h, handlers[h], JudgeResponse(response, config.reply_threshold))
  /\ UNCHANGED << config, now, today, started >>

\* heartflow_status: line 448 and, through line 454, line 372.
HeartflowStatus(k) ==
  /\ chat_states' = AccessN(chat_states, k, today, 2)
  /\ bumps' = [ bumps EXCEPT ![k] = @ + RecoveriesN(chat_states, k, today, 2) ]
  /\ UNCHANGED << config, now, today, handlers, last, started, evaluated, verdicts,
                  concurrent >>

\* Mutant: the reset clears the whole store.
HeartflowReset_All(k) ==
  /\ k \in DOMAIN chat_states
  /\ chat_states' = << >>
  /\ evaluated' = [ evaluated EXCEPT ![k] = 0 ]
  /\ verdicts' = [ verdicts EXCEPT ![k] = 0 ]
  /\ bumps' = [ bumps EXCEPT ![k] = 0 ]
  /\ concurrent' = concurrent \ {k}
  /\ UNCHANGED << config, now, today, handlers, last, started >>

\* heartflow_reset
HeartflowReset(k) ==
  /\ k \in DOMAIN chat_states
  /\ chat_states' = [ x \in DOMAIN chat_states \ {k} |-> chat_states[x] ]
  /\ evaluated' = [ evaluated EXCEPT ![k] = 0 ]
  /\ verdicts' = [ verdicts EXCEPT ![k] = 0 ]
  /\ bumps' = [ bumps EXCEPT ![k] = 0 ]
  /\ concurrent' = concurrent \ {k}
  /\ UNCHANGED << config, now, today, handlers, last, started >>

\* Time passes, by a long pause; the date may change with it.  The clock
\* shows at most MaxTime different times.
Tick(newday) ==
  /\ now <= (MaxTime - 1) * LongPause
  /\ now' = now + LongPause
  /\ IF newday
       THEN /\ today' = today + 1
            /\ bumps' = [ k \in Keys |-> 0 ]
       ELSE UNCHANGED << today, bumps >>
  /\ UNCHANGED << config, chat_states, handlers, last, started, evaluated, verdicts,
                  concurrent >>

Init ==
  /\ config \in Configs
  /\ chat_states = << >>
  /\ now = 1
  /\ today = 1
  /\ handlers = [ h \in Handlers |-> Idle ]
  /\ last = Idle
  /\ started = 0
  /\ evaluated = [ k \in Keys |-> 0 ]
  /\ verdicts = [ k \in Keys |-> 0 ]
  /\ bumps = [ k \in Keys |-> 0 ]
  /\ concurrent = {}

Next ==
  \/ \E h \in Handlers, event \in Events, lookup \in Lookups : Receive(h, event, lookup)
  \/ \E h \in Handlers : BuildContext(h)
  \/ \E h \in Handlers : SendRequest(h)
  \/ \E h \in Handlers, response \in Responses : Respond(h, response)
  \/ \E k \in CommandKeys : HeartflowStatus(k)
  \/ \E k \in CommandKeys : HeartflowReset(k)
  \/ \E newday \in BOOLEAN : Tick(newday)

Spec == Init /\ [][Next]_vars


\* =============================================================== claims

\* The ChatState a transition of key k starts from: the entry as the
\* transition's own _get_chat_state returns it (a missing entry is a new
\* ChatState, and the daily recovery is applied when it is due).
StoredState(k) == IF k \in DOMAIN chat_states THEN chat_states[k] ELSE ChatState
EnergyBefore(k) ==
  IF StoredState(k).last_reset_date # today
    THEN Min(100, StoredState(k).energy + 20)
    ELSE StoredState(k).energy
NoneInFlight(k) ==
  \A h \in Handlers : handlers[h].pc \in InFlight => KeyOf(handlers[h]) # k

\* C1: for every judgment parsed from a provider response, the verdict is
\* true exactly when the model's own should_reply flag is true and the
\* computed overall_score is at least the configured threshold.
C1_DoubleGate ==
  last.flag # "none" =>
    ( last.result.should_reply <=>
        (last.flag = "true" /\ last.result.overall_score >= config.reply_threshold) )
\* A parsed judgment whose score equals the threshold and whose flag is true.
C1_Witness ==
  /\ last.flag = "true"
  /\ last.result.overall_score = config.reply_threshold
  /\ last.result.should_reply

\* C2: a step that reaches a should-reply verdict for key k applies the
\* proactive-reply transition to the ChatState of k: last_reply_time is the
\* current time, total_replies and total_messages grow by exactly 1, and
\* energy is max(0.1, energy_before - energy_decay_rate).
C2_ProactiveTransition ==
  [][ \A k \in Keys :
        verdicts'[k] = verdicts[k] + 1 =>
          /\ k \in DOMAIN chat_states'
          /\ chat_states'[k].last_reply_time = now
          /\ chat_states'[k].total_replies = StoredState(k).total_replies + 1
          /\ chat_states'[k].total_messages = StoredState(k).total_messages + 1
          /\ chat_states'[k].energy = Max(10, EnergyBefore(k) - config.energy_decay_rate)
    ]_vars
\* A first proactive reply has just been taken, with a positive decay.
C2_Witness ==
  /\ last.pc = "replied"
  /\ config.energy_decay_rate > 0
  /\ KeyOf(last) \in DOMAIN chat_states
  /\ chat_states[KeyOf(last)].total_replies = 1
  /\ chat_states[KeyOf(last)].total_messages = 1
  /\ chat_states[KeyOf(last)].last_reply_time = now
  /\ chat_states[KeyOf(last)].energy = 100 - config.energy_decay_rate

\* C3: a step that evaluates a message of key k with a not-reply verdict
\* applies the no-reply transition to the ChatState of k: total_messages
\* grows by exactly 1, energy is min(1.0, energy_before +
\* energy_recovery_rate), total_replies and last_reply_time stay.
C3_NoReplyTransition ==
  [][ \A k \in Keys :
        (evaluated'[k] = evaluated[k] + 1 /\ verdicts'[k] = verdicts[k]) =>
          /\ k \in DOMAIN chat_states'
          /\ chat_states'[k].total_messages = StoredState(k).total_messages + 1
          /\ chat_states'[k].energy = Min(100, EnergyBefore(k) + config.energy_recovery_rate)
          /\ chat_states'[k].total_replies = StoredState(k).total_replies
          /\ chat_states'[k].last_reply_time = StoredState(k).last_reply_time
    ]_vars

\* C4: with non-negative decay and recovery rates, the energy of every
\* ChatState lies in [0.1, 1.0] in every reachable state.
C4_EnergyRange ==
  (config.energy_decay_rate >= 0 /\ config.energy_recovery_rate >= 0) =>
    \A k \in DOMAIN chat_states :
      10 <= chat_states[k].energy /\ chat_states[k].energy <= 100
\* The floor was reached by a decay that would have gone below it.
C4_Witness ==
  /\ config.energy_decay_rate >= 0 /\ config.energy_recovery_rate >= 0
  /\ \E k \in DOMAIN chat_states :
       /\ chat_states[k].energy = 10
       /\ chat_states[k].total_replies = 2

\* C5: when several handlers of the same key were in flight at once, then
\* once they have all ended total_messages has grown by the number of
\* evaluated messages and total_replies by the number of should-reply
\* verdicts.
C5_ExactlyOnce ==
  \A k \in concurrent :
    NoneInFlight(k) =>
      /\ k \in DOMAIN chat_states
      /\ chat_states[k].total_messages = evaluated[k]
      /\ chat_states[k].total_replies = verdicts[k]

\* C6: judge_with_tiny_model never lets a failure escape: whatever the
\* cause of the failure (provider unconfigured, not found, lookup or call
\* raising, response unparsable or of the wrong shape), it returns a
\* JudgeResult whose should_reply is false, and no exception leaves
\* on_group_message.
C6_NeverRaises ==
  /\ last.pc # "crashed"
  /\ last.cause # "none" => (last.judged /\ ~last.result.should_reply)
\* A response that is JSON but no object: the AttributeError is caught.
C6_Witness ==
  /\ last.cause = "AttributeError"
  /\ last.requests = 1
  /\ last.judged
  /\ last.pc = "not_replied"

\* C7: a message the eligibility filter skips (heartflow disabled, already
\* marked as wake/at, whitelist enabled and conversation not listed, sent
\* by the bot itself, empty or whitespace-only text) causes no judgment
\* request, and any other message at most one.
Blank(s) == \A i \in 1..Len(s) : s[i] = " "
Ineligible(hr) ==
  \/ ~config.enable_heartflow
  \/ hr.wake0
  \/ config.whitelist_enabled /\ KeyOf(hr) \notin config.chat_whitelist
  \/ hr.event.sender_id = BotId
  \/ Blank(hr.event.message_str)
C7_AtMostOneRequest ==
  /\ last.requests <= 1
  /\ (last.pc # "idle" /\ Ineligible(last)) => (last.requests = 0 /\ last.pc = "skipped")
  /\ \A h \in Handlers :
       /\ handlers[h].requests <= 1
       /\ handlers[h].pc # "idle" => ~Ineligible(handlers[h])
\* A message of a conversation that is not on the enabled whitelist.
C7_Witness ==
  /\ last.pc = "skipped"
  /\ config.whitelist_enabled
  /\ KeyOf(last) \notin config.chat_whitelist
  /\ last.requests = 0

\* C8: the wake flag of a message is set by the plugin if and only if the
\* verdict is should-reply, and then the proactive-reply transition was
\* applied for the same message; a skipped or not-replied message keeps
\* the flag it came with.
C8_WakeIffReply ==
  /\ (last.event.is_at_or_wake_command # last.wake0)
       <=> (last.judged /\ last.result.should_reply)
  /\ (last.judged /\ last.result.should_reply) =>
       (last.pc = "replied" /\ last.transition = "active" /\ last.counted = 1)
  /\ \A h \in Handlers : handlers[h].event.is_at_or_wake_command = handlers[h].wake0
\* A message that came unmarked and was marked on a should-reply verdict.
C8_Witness ==
  /\ last.pc = "replied"
  /\ ~last.wake0
  /\ last.event.is_at_or_wake_command

\* C9 as stated: over the whole run of on_group_message for one message at
\* most one step writes to the ChatState of its key.
C9_AtMostOneMutation ==
  /\ last.mutations <= 1
  /\ \A h \in Handlers : handlers[h].mutations <= 1
\* C9 as amended: at most one step of the run changes the counters of the
\* ChatState (the transition); the state accesses made while the request
\* is built write only by creating the entry or applying the daily
\* recovery, so that at most three steps write.
C9_AtMostOneTransition ==
  /\ last.counted <= 1
  /\ last.mutations <= 3
  /\ \A h \in Handlers : handlers[h].counted = 0 /\ handlers[h].mutations <= 2
\* An invocation that wrote three times: it created the entry, applied the
\* daily recovery after the date changed, and applied its transition.
C9_Witness ==
  /\ last.mutations = 3
  /\ last.counted = 1

\* C10: the daily recovery is idempotent within one date: an access on the
\* date of the previous access leaves the entry unchanged, a second access
\* in a row changes nothing, and a ChatState receives the recovery at most
\* once per date.
C10_DailyIdempotent ==
  \A k \in Keys :
    /\ bumps[k] <= 1
    /\ LET once == GetChatState(chat_states, k, today)
       IN  GetChatState(once, k, today) = once
    /\ (k \in DOMAIN chat_states /\ bumps[k] = 1) =>
         GetChatState(chat_states, k, today) = chat_states
\* An entry that received today's recovery, visibly (below the cap), on a
\* later date than its creation.
C10_Witness ==
  \E k \in DOMAIN chat_states :
    /\ bumps[k] = 1
    /\ today > 1
    /\ chat_states[k].last_reset_date = today
    /\ chat_states[k].total_messages > 0
    /\ chat_states[k].energy < 100

\* A ChatState as an access creates it on date.
Fresh(date) == [ ChatState EXCEPT !.last_reset_date = date ]

\* C11: while the ChatState of a key exists, no step (evaluation, state
\* access, status query) lowers its total_messages or its total_replies.
C11_CountersMonotone ==
  [][ \A k \in Keys :
        (k \in DOMAIN chat_states /\ k \in DOMAIN chat_states') =>
          /\ chat_states'[k].total_messages >= chat_states[k].total_messages
          /\ chat_states'[k].total_replies >= chat_states[k].total_replies
    ]_vars
\* One entry that counted a reply and then a message not replied to.
C11_Witness ==
  \E k \in DOMAIN chat_states :
    /\ chat_states[k].total_messages = 2
    /\ chat_states[k].total_replies = 1
    /\ last.pc = "not_replied"
    /\ KeyOf(last) = k

\* C12: an access of a key without an entry creates a ChatState with
\* energy 1.0, both counters 0, last_reply_time 0 and last_reset_date
\* today; an access of a key with an entry keeps its counters and its
\* last_reply_time, and changes nothing but by the daily recovery.
C12_LazyCreation ==
  [][ \A k \in Keys :
        /\ k \notin DOMAIN chat_states =>
             GetChatState(chat_states, k, today)[k] =
               [ energy |-> 100, last_reply_time |-> 0, last_reset_date |-> today,
                 total_messages |-> 0, total_replies |-> 0 ]
        /\ (k \notin DOMAIN chat_states /\ k \in DOMAIN chat_states'
            /\ evaluated'[k] = evaluated[k]) =>
             chat_states'[k] =
               [ energy |-> 100, last_reply_time |-> 0, last_reset_date |-> today,
                 total_messages |-> 0, total_replies |-> 0 ]
        /\ (k \in DOMAIN chat_states /\ k \in DOMAIN chat_states'
            /\ evaluated'[k] = evaluated[k]) =>
             \/ chat_states'[k] = chat_states[k]
             \/ /\ chat_states[k].last_reset_date # today
                /\ chat_states'[k] =
                     [ chat_states[k] EXCEPT
                         !.last_reset_date = today,
                         !.energy = Min(100, chat_states[k].energy + 20) ]
    ]_vars
\* The entry of a key whose last message was counted is a new one: it was
\* removed by heartflow_reset and created again by an access.
C12_Witness ==
  /\ last.transition # "none"
  /\ KeyOf(last) \in DOMAIN chat_states
  /\ NoneInFlight(KeyOf(last))
  /\ chat_states[KeyOf(last)] = Fresh(today)

\* C13 as stated: a key that has an entry in the store has one in every
\* later state.
C13_NeverDestroyed ==
  [][ \A k \in DOMAIN chat_states : k \in DOMAIN chat_states' ]_vars
\* C13 as amended: an entry leaves the store only by a heartflow_reset
\* issued in its own conversation, which removes that entry alone; message
\* handling and status queries never remove an entry.
C13_RemovedOnlyByReset ==
  [][ \A k \in DOMAIN chat_states :
        k \notin DOMAIN chat_states' =>
          /\ k \in CommandKeys
          /\ DOMAIN chat_states' = DOMAIN chat_states \ {k}
          /\ \A x \in DOMAIN chat_states' : chat_states'[x] = chat_states[x]
          /\ UNCHANGED << handlers, last, started >>
    ]_vars
\* The entry a counted message left was removed, and nothing is in flight
\* that would create it again.
C13_Witness ==
  /\ last.transition # "none"
  /\ KeyOf(last) \notin DOMAIN chat_states
  /\ NoneInFlight(KeyOf(last))

\* C14: every invocation of on_group_message that has ended is in one of
\* the three terminal states: skipped (no judgment, no request, no
\* transition), replied (wake flag set and proactive transition applied)
\* or not replied (no-reply transition applied).
C14_ThreeTerminals ==
  last.pc # "idle" =>
    \/ /\ last.pc = "skipped"
       /\ ~last.judged /\ last.requests = 0 /\ last.transition = "none"
    \/ /\ last.pc = "replied"
       /\ last.event.is_at_or_wake_command /\ last.transition = "active"
    \/ /\ last.pc = "not_replied"
       /\ last.transition = "passive"

\* C15: overall_score is the sum of the five scores weighted 0.25, 0.20,
\* 0.20, 0.15, 0.20 and divided by 10, a missing score counting 0; scores
\* 8, 7, 7, 6, 5 give 0.67, which under threshold 0.6 is a reply with the
\* model flag true and no reply with the flag false.
C15_WeightedScore ==
  /\ \A h \in Handlers :
       handlers[h].pc = "waiting" =>
         /\ \A r \in Responses :
              LET o == JudgeResponse(r, config.reply_threshold)
                  sc == r.payload.scores
                  get(d) == IF d \in DOMAIN sc THEN sc[d] ELSE 0
              IN  o.flag # "none" =>
                    o.result.overall_score =
                      get("relevance") * 25 + get("willingness") * 20
                      + get("social") * 20 + get("timing") * 15
                      + get("continuity") * 20
         /\ \A f \in { "true", "false" } :
              LET o == JudgeResponse(
                         [ kind |-> "text", fence |-> "none",
                           payload |-> Object(Scores(8, 7, 7, 6, 5), TRUE, f, "string") ],
                         600)
              IN  /\ o.result.overall_score = 670
                  /\ o.result.should_reply <=> (f = "true")
  /\ last.flag # "none" => last.result.overall_score \in { 670, 600, 450 }
\* The scores 8, 7, 7, 6, 5 were judged with the model flag false.
C15_Witness ==
  /\ last.flag = "false"
  /\ last.result.overall_score = 670
  /\ config.reply_threshold = 600
  /\ ~last.result.should_reply
  /\ last.pc = "not_replied"

\* C16: a judgment that failed (provider unconfigured or not found, lookup
\* or call raising, response not parsable) ends the handler as a
\* not-reply verdict: the wake flag stays unset and the no-reply
\* transition is applied (total_messages + 1, energy + recovery rate,
\* capped at 1.0).
C16_FailureIsNoReply ==
  [][ \A k \in Keys :
        (evaluated'[k] = evaluated[k] + 1 /\ last'.cause # "none") =>
          /\ KeyOf(last') = k
          /\ last'.pc = "not_replied"
          /\ ~last'.event.is_at_or_wake_command
          /\ k \in DOMAIN chat_states'
          /\ chat_states'[k].total_messages = StoredState(k).total_messages + 1
          /\ chat_states'[k].total_replies = StoredState(k).total_replies
          /\ chat_states'[k].energy =
               Min(100, EnergyBefore(k) + config.energy_recovery_rate)
    ]_vars
\* A message judged without a configured provider was counted.
C16_Witness ==
  /\ last.cause = "unconfigured"
  /\ last.pc = "not_replied"
  /\ ~last.event.is_at_or_wake_command
  /\ KeyOf(last) \in DOMAIN chat_states
  /\ chat_states[KeyOf(last)].total_messages = 2

\* C17: a message the eligibility filter rejects leaves the whole store
\* unchanged: no entry is created and none is modified.
C17_SkipLeavesStore ==
  [][ (started' = started + 1 /\ handlers' = handlers /\ Ineligible(last')) =>
        /\ last'.pc = "skipped"
        /\ chat_states' = chat_states
    ]_vars
\* The bot's own message was skipped after a message of the conversation
\* was counted: the count is still 1.
C17_Witness ==
  /\ last.pc = "skipped"
  /\ last.event.sender_id = BotId
  /\ started = 2
  /\ KeyOf(last) \in DOMAIN chat_states
  /\ chat_states[KeyOf(last)].total_messages = 1

\* C18: total_replies <= total_messages for every ChatState in every
\* reachable state.
C18_RepliesWithinMessages ==
  \A k \in DOMAIN chat_states :
    chat_states[k].total_replies <= chat_states[k].total_messages
\* Every message of the conversation was replied to.
C18_Witness ==
  \E k \in DOMAIN chat_states :
    /\ chat_states[k].total_replies = 2
    /\ chat_states[k].total_messages = 2

\* C19 as stated: last_reply_time is 0 exactly when total_replies is 0,
\* and the minutes-since-last-reply helper gives 999 exactly for the
\* ChatStates without a reply.
C19_SentinelExactly ==
  \A k \in DOMAIN chat_states :
    /\ chat_states[k].last_reply_time = 0 <=> chat_states[k].total_replies = 0
    /\ MinutesSinceLastReply(chat_states, k, today, now) = 999
         <=> chat_states[k].total_replies = 0
\* C19 as amended: last_reply_time is 0 exactly when total_replies is 0;
\* the helper gives 999 for every ChatState without a reply, and for one
\* with a reply the whole minutes since the last one (which is 999 too
\* when that reply was 999 minutes ago).
C19_UnsetIffNoReply ==
  \A k \in DOMAIN chat_states :
    /\ chat_states[k].last_reply_time = 0 <=> chat_states[k].total_replies = 0
    /\ chat_states[k].total_replies = 0 =>
         MinutesSinceLastReply(chat_states, k, today, now) = 999
    /\ chat_states[k].total_replies > 0 =>
         MinutesSinceLastReply(chat_states, k, today, now)
           = (now - chat_states[k].last_reply_time) \div 60
\* A conversation that replied 999 minutes ago.
C19_Witness ==
  \E k \in DOMAIN chat_states :
    /\ chat_states[k].total_replies = 1
    /\ chat_states[k].last_reply_time > 0
    /\ now - chat_states[k].last_reply_time = 999 * 60

\* ChatStates to start a run from: a new one, and one at the minimum
\* energy with a history of replies.
OtherStates ==
  { Fresh(today),
    [ energy |-> 10, last_reply_time |-> now, last_reset_date |-> today,
      total_messages |-> 5, total_replies |-> 5 ] }

\* C20: the verdict does not depend on the stored ChatState: the same
\* provider response under the same threshold gives the same verdict, the
\* same wake flag and the same ending from any ChatState, one at the
\* minimum energy 0.1 among them, and a verdict to reply always ends in a
\* reply.
C20_VerdictIgnoresState ==
  \A h \in Handlers :
    handlers[h].pc = "waiting" =>
      \A o \in { JudgeResponse(r, config.reply_threshold) : r \in Responses } :
        \A here \in { ApplyVerdict(handlers[h], o, chat_states, config,
                                   today, now).handler } :
          /\ o.result.should_reply =>
               (here.pc = "replied" /\ here.event.is_at_or_wake_command)
          /\ \A s \in OtherStates :
               ApplyVerdict(handlers[h], o,
                            Put(chat_states, KeyOf(handlers[h]), s),
                            config, today, now).handler = here
\* A conversation replied while at its minimum energy: its second reply
\* on the date of its first, which had taken the energy to 0.1.
C20_Witness ==
  /\ last.pc = "replied"
  /\ today = 1
  /\ config.energy_decay_rate = 90
  /\ KeyOf(last) \in DOMAIN chat_states
  /\ chat_states[KeyOf(last)].total_replies = 2
  /\ chat_states[KeyOf(last)].energy = 10

====
